---- MODULE Spec2Model ----
(***************************************************************************)
(* Model of the profile-agent front end (AppContent): the React state of   *)
(* the component, the three asynchronous operations fetchMetrics, getRecom *)
(* and execAction with their requests in flight, the delayed metrics       *)
(* refresh, the account changes announced by the UP provider and the       *)
(* rendering conditions that decide which handler the user can invoke.     *)
(* A handler runs without interruption up to its first await, so every     *)
(* action below is one such run: a click or effect up to the await, or the *)
(* continuation after the awaited promise settles.                         *)
(* Two more programs are modelled further down, each with a specification  *)
(* of its own: the script configureKeyManager.js that grants the agent its *)
(* permissions on the profile, and the agent service that selects actions  *)
(* and decays its exploration rate.                                        *)
(***************************************************************************)
EXTENDS Integers, Sequences, FiniteSets, TLC

VARIABLES
    address,        \* account announced by the UP provider, NoAddr when none
    provider,       \* whether createClientUPProvider() returned a provider
    metrics,        \* useState<ProfileMetrics|null>
    recommendation, \* useState<ActionResponse|null>
    logs,           \* useState<ActionLog[]>, newest first
    loading,        \* useState<{metrics,recommend,exec}>
    error,          \* useState<string|null>
    target,         \* useState('')
    content,        \* useState('')
    amount,         \* useState('1')
    fetches,        \* every fetchMetrics call made so far, with its position
    recoms,         \* every recommend-action request made so far
    execs,          \* every execAction run made so far
    timers,         \* pending setTimeout(fetchMetrics,5000), by captured address
    nextId,         \* number of log entries created so far (source of entry ids)
    env,            \* process.env of configureKeyManager.js
    upData,         \* the profile's ERC725Y data under the permission keys
    runs,           \* every run of configureKeyManager.js so far, with its position
    policy,         \* the policy artifact the agent service has loaded
    call,           \* the last selectAction call, with the action it returned
    trainer         \* the training run: its exploration schedule and epsilon

appVars == <<address, provider, metrics, recommendation, logs, loading, error,
             target, content, amount, fetches, recoms, execs, timers, nextId>>

scriptVars == <<env, upData, runs>>

agentVars == <<policy, call, trainer>>

vars == <<appVars, scriptVars, agentVars>>

(***************************************************************************)
(* Bounds of the exploration.                                              *)
(***************************************************************************)
\* calls of fetchMetrics, getRecom and execAction explored in one run
MaxCalls == 4
\* in SpecLog: calls of addLog beyond the cap, and how far below the cap the
\* initial logs start
MaxLogAdds == 3

(***************************************************************************)
(* Values.                                                                 *)
(***************************************************************************)
\* null of an object-valued state, and of the error string
Null == [null |-> TRUE]
NoError == "none"
NoAddr == ""
Profiles == {"0xA", "0xB"}
\* the accounts the provider announces in Spec: one profile, connected,
\* disconnected and connected again
Announced == {"0xA"}
NoHash == ""
\* the error getRecom sets when it holds no metrics (line 93)
RefusedMessage == "Connect and load metrics first"

\* strings the user can type into the target field; AddressShaped are those
\* ethers' isAddress accepts
TargetInputs == {"", "0xT"}
AddressShaped == {"0xT", "0xA", "0xB"}
ContentInputs == {"", "cid"}
\* strings the number input can hold
AmountInputs == {"", "0", "1"}
DecimalStrings == {"-1", "0", "1"}

\* what one on-chain read plus the two Math.random() draws may yield
MetricSamples == {[followers |-> 1, postsCount |-> 1, engagementRate |-> 0]}

LogCap == 50
Decimals == 18

\* variant: getRecom posts to the execute endpoint
RecommendUrlSlip == "/execute-action"

RecommendUrl == "/recommend-action"
ExecuteUrl == "/execute-action"

\* variant: Reward Follower declares only the amount
AVAILABLE_ACTIONS_NoTarget ==
    [i \in {0, 1, 2} |->
        CASE i = 0 -> [name |-> "Make Post", requires |-> {"content"}]
          [] i = 1 -> [name |-> "Follow Profile", requires |-> {"target"}]
          [] i = 2 -> [name |-> "Reward Follower", requires |-> {"amount"}]]

AVAILABLE_ACTIONS ==
    [i \in {0, 1, 2} |->
        CASE i = 0 -> [name |-> "Make Post", requires |-> {"content"}]
          [] i = 1 -> [name |-> "Follow Profile", requires |-> {"target"}]
          [] i = 2 -> [name |-> "Reward Follower", requires |-> {"target", "amount"}]]

\* action ids and names the recommend-action endpoint may answer with; the
\* type of the response is {action_id: number, action_name: string}
ActionResponses ==
    {[action_id |-> i, action_name |-> AVAILABLE_ACTIONS[i].name] : i \in {0, 1, 2}}
    \cup {[action_id |-> 3, action_name |-> "Unknown"]}

\* bodies the execute-action endpoint may answer a 2xx response with
ExecResponses ==
    {[status |-> "Confirmed", transactionHash |-> "0xtx"],
     [status |-> "ExecutionReverted", transactionHash |-> NoHash]}

(***************************************************************************)
(* Library functions, by what they do on the inputs above.                 *)
(***************************************************************************)
isAddress(s) == s \in AddressShaped

StrToInt(s) == CASE s = "-1" -> -1 [] s = "0" -> 0 [] s = "1" -> 1

\* parseUnits(value, decimals): value * 10^decimals as an integer, kept as
\* mantissa and exponent; a string that is no decimal number throws
parseUnits(s, d) ==
    IF s \in DecimalStrings
    THEN [ok |-> TRUE, wei |-> [mantissa |-> StrToInt(s), exp |-> d]]
    ELSE [ok |-> FALSE, wei |-> [mantissa |-> 0, exp |-> 0]]

NoWei == [mantissa |-> 0, exp |-> 0]

Calls == Len(fetches) + Len(recoms) + Len(execs)

Min(a, b) == IF a < b THEN a ELSE b

\* Array.prototype.slice(0, n)
slice0(s, n) == SubSeq(s, 1, Min(Len(s), n))

(***************************************************************************)
(* addLog: a new entry with a fresh id goes in front, the list is cut to   *)
(* the cap.                                                                *)
(***************************************************************************)
Entry(id, name, status, message, txHash) ==
    [id |-> id, name |-> name, status |-> status, message |-> message, txHash |-> txHash]

\* variant: the cut keeps the tail, slice(-50)
addLogKeepTail(l, id, name, status, message, txHash) ==
    LET s == <<Entry(id, name, status, message, txHash)>> \o l
    IN  SubSeq(s, Len(s) - Min(Len(s), LogCap) + 1, Len(s))

\* variant: a terminal entry overwrites the pending entry in front
addLogOverwrite(l, id, name, status, message, txHash) ==
    IF Len(l) > 0 /\ l[1].status = "pending" /\ status # "pending"
    THEN <<[l[1] EXCEPT !.status = status, !.message = message, !.txHash = txHash]>>
         \o Tail(l)
    ELSE slice0(<<Entry(id, name, status, message, txHash)>> \o l, LogCap)

addLog(l, id, name, status, message, txHash) ==
    slice0(<<Entry(id, name, status, message, txHash)>> \o l, LogCap)

\* variant: the catch block only sets the error
catchLogSilent(l, id, name, message) == l

\* the entry a catch block adds (lines 85, 100, 120)
catchLog(l, id, name, message) == addLog(l, id, name, "failed", message, NoHash)

DoneMessage(name) ==
    CASE name = "Make Post" -> "Make Post done"
      [] name = "Follow Profile" -> "Follow Profile done"
      [] name = "Reward Follower" -> "Reward Follower done"

(***************************************************************************)
(* Rendering conditions (what the user can click).                         *)
(***************************************************************************)
\* line 124: without an address only the connect screen is rendered
Connected == address # NoAddr

\* line 132: the action the recommendation names, when the table has it
HasActionDetails ==
    recommendation # Null /\ recommendation.action_id \in DOMAIN AVAILABLE_ACTIONS

actionDetails == AVAILABLE_ACTIONS[recommendation.action_id]

\* disabled={loading.metrics}, disabled={loading.recommend}, disabled={loading.exec}
RefreshDisabled == loading.metrics
RecommendDisabled == loading.recommend
\* variant: the Execute Action button is never disabled
ExecuteNeverDisabled == FALSE

ExecuteDisabled == loading.exec

(***************************************************************************)
(* The configuration script is a separate program: while the component     *)
(* runs it has no environment, has written nothing and has not run.        *)
(***************************************************************************)
PermissionKeyNames == {"AddressPermissions:Permissions", "AddressPermissions:AllowedCalls"}
Agents == {"0xAgent"}
PermissionKeys == PermissionKeyNames \X Agents

NoEnv ==
    [TESTNET_RPC_URL |-> "", DEPLOYER_PRIVATE_KEY |-> "", TARGET_UP_ADDRESS |-> "",
     AGENT_EOA_ADDRESS |-> "", THANK_YOU_TOKEN_ADDRESS |-> "", BADGE_NFT_ADDRESS |-> ""]

\* no value stored under any permission key
NoData == [k \in PermissionKeys |-> <<>>]

ScriptIdle == env = NoEnv /\ upData = NoData /\ runs = <<>>

(***************************************************************************)
(* The agent service is a separate process too: nothing loaded, nothing    *)
(* selected, no training run.                                              *)
(***************************************************************************)
NoPolicy == <<>>
NoCall == [made |-> FALSE]
NoTrainer == [running |-> FALSE]

AgentIdle == policy = NoPolicy /\ call = NoCall /\ trainer = NoTrainer

(***************************************************************************)
(* Initial state: the component as mounted, no account connected.          *)
(***************************************************************************)
Init ==
    /\ address = NoAddr
    /\ provider \in BOOLEAN
    /\ metrics = Null
    /\ recommendation = Null
    /\ logs = <<>>
    /\ loading = [metrics |-> FALSE, recommend |-> FALSE, exec |-> FALSE]
    /\ error = NoError
    /\ target = ""
    /\ content = ""
    /\ amount = "1"
    /\ fetches = <<>>
    /\ recoms = <<>>
    /\ execs = <<>>
    /\ timers = [a \in Profiles |-> 0]
    /\ nextId = 0
    /\ ScriptIdle
    /\ AgentIdle

(***************************************************************************)
(* fetchMetrics, lines 65-88.                                              *)
(***************************************************************************)
\* lines 66-73 for the address a the callback captured: up to the await
fetchMetrics(a) ==
    /\ a # NoAddr
    /\ Calls < MaxCalls
    /\ loading' = [loading EXCEPT !.metrics = TRUE]
    /\ error' = NoError
    /\ logs' = addLog(logs, nextId, "Fetch Metrics", "pending", "Loading profile...", NoHash)
    /\ nextId' = nextId + 1
    /\ fetches' = Append(fetches, [address |-> a, pc |-> "Pending"])

\* lines 74-83 and 87: the read returned
FetchResolve(i, s) ==
    /\ fetches[i].pc = "Pending"
    /\ metrics' = [followers |-> s.followers, postsCount |-> s.postsCount,
                   engagementRate |-> s.engagementRate, read |-> i]
    /\ logs' = addLog(logs, nextId, "Fetch Metrics", "success", "Loaded", NoHash)
    /\ nextId' = nextId + 1
    /\ loading' = [loading EXCEPT !.metrics = FALSE]
    /\ fetches' = [fetches EXCEPT ![i].pc = "Done"]
    /\ UNCHANGED <<scriptVars, agentVars, address, provider, recommendation, error, target, content, amount,
                   recoms, execs, timers>>

\* lines 84-87: the read (or the decoding of its result) threw
FetchReject(i) ==
    /\ fetches[i].pc = "Pending"
    /\ error' = "read failed"
    /\ logs' = catchLog(logs, nextId, "Fetch Metrics", "read failed")
    /\ nextId' = nextId + 1
    /\ metrics' = Null
    /\ loading' = [loading EXCEPT !.metrics = FALSE]
    /\ fetches' = [fetches EXCEPT ![i].pc = "Failed"]
    /\ UNCHANGED <<scriptVars, agentVars, address, provider, recommendation, target, content, amount,
                   recoms, execs, timers>>

\* line 146: the Refresh button
Refresh ==
    /\ Connected
    /\ ~RefreshDisabled
    /\ fetchMetrics(address)
    /\ UNCHANGED <<scriptVars, agentVars, address, provider, metrics, recommendation, target, content, amount,
                   recoms, execs, timers>>

\* line 119: the delayed refresh fires with the fetchMetrics of the render
\* that started the execute, so with that render's address
TimerFire(a) ==
    /\ timers[a] > 0
    /\ timers' = [timers EXCEPT ![a] = @ - 1]
    /\ fetchMetrics(a)
    /\ UNCHANGED <<scriptVars, agentVars, address, provider, metrics, recommendation, target, content, amount,
                   recoms, execs>>

(***************************************************************************)
(* The account changes (line 48) and the effect on address (line 90).      *)
(***************************************************************************)
Connect(a) ==
    /\ a # address
    /\ address' = a
    /\ fetchMetrics(a)
    /\ UNCHANGED <<scriptVars, agentVars, provider, metrics, recommendation, target, content, amount,
                   recoms, execs, timers>>

Disconnect ==
    /\ Connected
    /\ address' = NoAddr
    /\ metrics' = Null
    /\ recommendation' = Null
    /\ logs' = <<>>
    /\ UNCHANGED <<scriptVars, agentVars, provider, loading, error, target, content, amount,
                   fetches, recoms, execs, timers, nextId>>

(***************************************************************************)
(* getRecom, lines 92-102.                                                 *)
(***************************************************************************)
\* line 93: no metrics held
GetRecomRefused ==
    /\ Connected
    /\ ~RecommendDisabled
    /\ metrics = Null
    /\ error # RefusedMessage      \* otherwise the call changes nothing
    /\ error' = RefusedMessage
    /\ UNCHANGED <<scriptVars, agentVars, address, provider, metrics, recommendation, logs, loading,
                   target, content, amount, fetches, recoms, execs, timers, nextId>>

\* lines 94-97: up to the await of the request
getRecom ==
    /\ Connected
    /\ ~RecommendDisabled
    /\ metrics # Null
    /\ Calls < MaxCalls
    /\ loading' = [loading EXCEPT !.recommend = TRUE]
    /\ error' = NoError
    /\ logs' = addLog(logs, nextId, "Recommend", "pending", "Agent thinking...", NoHash)
    /\ nextId' = nextId + 1
    /\ recoms' = Append(recoms,
          [url |-> RecommendUrl, up_address |-> address,
           followers |-> metrics.followers, posts |-> metrics.postsCount,
           engagement |-> metrics.engagementRate,
           read |-> metrics.read, readsBefore |-> Len(fetches),
           pc |-> "Pending"])
    /\ UNCHANGED <<scriptVars, agentVars, address, provider, metrics, recommendation, target, content, amount,
                   fetches, execs, timers>>

\* lines 98-99 and 101: the service answered with data
GetRecomResolve(i, data) ==
    /\ recoms[i].pc = "Pending"
    \* setRecommendation(res.data); call records which request it answers
    /\ recommendation' = [action_id |-> data.action_id,
                          action_name |-> data.action_name, call |-> i]
    /\ logs' = addLog(logs, nextId, "Recommend", "success", data.action_name, NoHash)
    /\ nextId' = nextId + 1
    /\ loading' = [loading EXCEPT !.recommend = FALSE]
    /\ recoms' = [recoms EXCEPT ![i].pc = "Done"]
    /\ UNCHANGED <<scriptVars, agentVars, address, provider, metrics, error, target, content, amount,
                   fetches, execs, timers>>

\* lines 100-101: the request failed
GetRecomReject(i) ==
    /\ recoms[i].pc = "Pending"
    /\ error' = "Network Error"
    /\ logs' = catchLog(logs, nextId, "Recommend", "Network Error")
    /\ nextId' = nextId + 1
    /\ loading' = [loading EXCEPT !.recommend = FALSE]
    /\ recoms' = [recoms EXCEPT ![i].pc = "Failed"]
    /\ UNCHANGED <<scriptVars, agentVars, address, provider, metrics, recommendation, target, content, amount,
                   fetches, execs, timers>>

(***************************************************************************)
(* execAction, lines 104-122.                                              *)
(***************************************************************************)
EmptyPayload ==
    [up_address |-> NoAddr, action_id |-> -1, fields |-> {},
     target_address |-> "", post_content_cid |-> "", reward_amount_wei |-> NoWei]

\* lines 110-114: the payload, or the error thrown while building it; the
\* checks run in the order target, content, amount
BuildPayload(action, addr, id, t, c, am) ==
    LET needT == "target" \in action.requires
        needC == "content" \in action.requires
        needA == "amount" \in action.requires
        amt == parseUnits(am, Decimals)
    IN  IF needT /\ ~isAddress(t)
        THEN [ok |-> FALSE, error |-> "Invalid target", payload |-> EmptyPayload]
        ELSE IF needC /\ c = ""
        THEN [ok |-> FALSE, error |-> "Content required", payload |-> EmptyPayload]
        ELSE IF needA /\ ~amt.ok
        THEN [ok |-> FALSE, error |-> "invalid decimal value", payload |-> EmptyPayload]
        ELSE [ok |-> TRUE, error |-> NoError,
              payload |-> [up_address |-> addr, action_id |-> id,
                           fields |-> action.requires,
                           target_address |-> IF needT THEN t ELSE "",
                           post_content_cid |-> IF needC THEN c ELSE "",
                           reward_amount_wei |-> IF needA THEN amt.wei ELSE NoWei]]

\* what an execAction run records of itself
ExecRun(action, id, addr, t, c, am, built) ==
    [url |-> ExecuteUrl, up_address |-> addr, action_id |-> id, name |-> action.name,
     target |-> t, content |-> c, amount |-> am,
     payload |-> built.payload,
     recommended |-> recommendation.call,
     sent |-> IF built.ok THEN 1 ELSE 0,
     pc |-> IF built.ok THEN "Submitted" ELSE "Failed",
     result |-> IF built.ok THEN "none" ELSE built.error]

\* variant: a rejected request is posted again
RejectedRetry(e) == [e EXCEPT !.sent = @ + 1]

\* the request of a run was rejected (line 120)
Rejected(e) == [e EXCEPT !.pc = "Failed", !.result = "rejected"]

\* the request of a run was answered (lines 116-119)
Answered(e, res) == [e EXCEPT !.pc = "Confirmed", !.result = res.status]

\* lines 105-115, and 120-121 when building the payload throws: the click on
\* Execute Action up to the await of the request. The button exists only
\* under actionDetails (line 165) and is disabled while loading.exec.
execAction ==
    /\ Connected
    /\ HasActionDetails
    /\ ~ExecuteDisabled
    /\ provider
    /\ Calls < MaxCalls
    /\ LET action == actionDetails
           built == BuildPayload(action, address, recommendation.action_id,
                                 target, content, amount)
           pending == addLog(logs, nextId, "Execute", "pending", action.name, NoHash)
       IN  /\ execs' = Append(execs, ExecRun(action, recommendation.action_id, address,
                                             target, content, amount, built))
           /\ IF built.ok
              THEN /\ loading' = [loading EXCEPT !.exec = TRUE]
                   /\ error' = NoError
                   /\ logs' = pending
                   /\ nextId' = nextId + 1
              ELSE /\ loading' = [[loading EXCEPT !.exec = TRUE] EXCEPT !.exec = FALSE]
                   /\ error' = built.error
                   /\ logs' = catchLog(pending, nextId + 1, "Execute", built.error)
                   /\ nextId' = nextId + 2
    /\ UNCHANGED <<scriptVars, agentVars, address, provider, metrics, recommendation, target, content, amount,
                   fetches, recoms, timers>>

\* variant: the success path leaves the recommendation in place
ExecResolveKeeps(i, res) ==
    /\ execs[i].pc = "Submitted"
    /\ logs' = addLog(logs, nextId, "Execute", "success", DoneMessage(execs[i].name),
                      res.transactionHash)
    /\ nextId' = nextId + 1
    /\ target' = ""
    /\ content' = ""
    /\ amount' = "1"
    /\ timers' = [timers EXCEPT ![execs[i].up_address] = @ + 1]
    /\ loading' = [loading EXCEPT !.exec = FALSE]
    /\ execs' = [execs EXCEPT ![i] = Answered(@, res)]
    /\ UNCHANGED <<scriptVars, agentVars, address, provider, metrics, recommendation,
                   error, fetches, recoms>>

\* lines 116-119 and 121: the request returned a response
ExecResolve(i, res) ==
    /\ execs[i].pc = "Submitted"
    /\ logs' = addLog(logs, nextId, "Execute", "success", DoneMessage(execs[i].name),
                      res.transactionHash)
    /\ nextId' = nextId + 1
    /\ recommendation' = Null
    /\ target' = ""
    /\ content' = ""
    /\ amount' = "1"
    /\ timers' = [timers EXCEPT ![execs[i].up_address] = @ + 1]
    /\ loading' = [loading EXCEPT !.exec = FALSE]
    /\ execs' = [execs EXCEPT ![i] = Answered(@, res)]
    /\ UNCHANGED <<scriptVars, agentVars, address, provider, metrics, error, fetches, recoms>>

\* lines 120-121: the request failed
ExecReject(i) ==
    /\ execs[i].pc = "Submitted"
    /\ error' = "Network Error"
    /\ logs' = catchLog(logs, nextId, "Execute", "Network Error")
    /\ nextId' = nextId + 1
    /\ loading' = [loading EXCEPT !.exec = FALSE]
    /\ execs' = [execs EXCEPT ![i] = Rejected(@)]
    /\ UNCHANGED <<scriptVars, agentVars, address, provider, metrics, recommendation, target, content, amount,
                   fetches, recoms, timers>>

(***************************************************************************)
(* The parameter inputs, lines 168-170: each is rendered only when the     *)
(* recommended action requires it.                                         *)
(***************************************************************************)
SetTarget(v) ==
    /\ Connected /\ HasActionDetails
    /\ "target" \in actionDetails.requires
    /\ v # target
    /\ target' = v
    /\ UNCHANGED <<scriptVars, agentVars, address, provider, metrics, recommendation, logs, loading, error,
                   content, amount, fetches, recoms, execs, timers, nextId>>

SetContent(v) ==
    /\ Connected /\ HasActionDetails
    /\ "content" \in actionDetails.requires
    /\ v # content
    /\ content' = v
    /\ UNCHANGED <<scriptVars, agentVars, address, provider, metrics, recommendation, logs, loading, error,
                   target, amount, fetches, recoms, execs, timers, nextId>>

SetAmount(v) ==
    /\ Connected /\ HasActionDetails
    /\ "amount" \in actionDetails.requires
    /\ v # amount
    /\ amount' = v
    /\ UNCHANGED <<scriptVars, agentVars, address, provider, metrics, recommendation, logs, loading, error,
                   target, content, fetches, recoms, execs, timers, nextId>>

Next ==
    \/ \E a \in Announced : Connect(a)
    \/ Disconnect
    \/ Refresh
    \/ \E a \in Profiles : TimerFire(a)
    \/ \E i \in DOMAIN fetches : \E s \in MetricSamples : FetchResolve(i, s)
    \/ \E i \in DOMAIN fetches : FetchReject(i)
    \/ GetRecomRefused
    \/ getRecom
    \/ \E i \in DOMAIN recoms : \E data \in ActionResponses : GetRecomResolve(i, data)
    \/ \E i \in DOMAIN recoms : GetRecomReject(i)
    \/ execAction
    \/ \E i \in DOMAIN execs : \E res \in ExecResponses : ExecResolve(i, res)
    \/ \E i \in DOMAIN execs : ExecReject(i)
    \/ \E v \in TargetInputs : SetTarget(v)
    \/ \E v \in ContentInputs : SetContent(v)
    \/ \E v \in AmountInputs : SetAmount(v)

Spec == Init /\ [][Next]_vars

(***************************************************************************)
(* addLog on its own, lines 60-62: logs of every length up to the cap that *)
(* earlier calls can have left, and further calls with any entry.          *)
(***************************************************************************)
LogInputs ==
    {[name |-> "Fetch Metrics", status |-> "pending", message |-> "Loading profile...",
      txHash |-> NoHash],
     [name |-> "Recommend", status |-> "failed", message |-> "Network Error",
      txHash |-> NoHash],
     [name |-> "Execute", status |-> "success", message |-> "Make Post done",
      txHash |-> "0xtx"]}

\* the entry the id-th call created in the initial logs
EarlierEntry(id) ==
    CASE id % 3 = 0 -> Entry(id, "Fetch Metrics", "pending", "Loading profile...", NoHash)
      [] id % 3 = 1 -> Entry(id, "Fetch Metrics", "success", "Loaded", NoHash)
      [] id % 3 = 2 -> Entry(id, "Recommend", "pending", "Agent thinking...", NoHash)

\* the log after n calls, newest first
LogAfter(n) == [k \in 1..n |-> EarlierEntry(n - k)]

InitLog ==
    /\ address = "0xA"
    /\ provider = TRUE
    /\ metrics = Null
    /\ recommendation = Null
    /\ \E n \in (LogCap - MaxLogAdds)..LogCap : logs = LogAfter(n) /\ nextId = n
    /\ loading = [metrics |-> FALSE, recommend |-> FALSE, exec |-> FALSE]
    /\ error = NoError
    /\ target = ""
    /\ content = ""
    /\ amount = "1"
    /\ fetches = <<>>
    /\ recoms = <<>>
    /\ execs = <<>>
    /\ timers = [a \in Profiles |-> 0]
    /\ ScriptIdle
    /\ AgentIdle

AddLogCall(e) ==
    /\ nextId < LogCap + MaxLogAdds
    /\ logs' = addLog(logs, nextId, e.name, e.status, e.message, e.txHash)
    /\ nextId' = nextId + 1
    /\ UNCHANGED <<scriptVars, agentVars, address, provider, metrics, recommendation, loading, error,
                   target, content, amount, fetches, recoms, execs, timers>>

NextLog == \E e \in LogInputs : AddLogCall(e)

SpecLog == InitLog /\ [][NextLog]_vars

(***************************************************************************)
(* Properties.                                                             *)
(***************************************************************************)
Settled == {"Confirmed", "Failed"}
Finished == {"Done", "Failed"}
TerminalStatus == {"success", "failed"}

\* the parameters an action id must carry: Post content; Follow target;
\* Reward target and amount
RequiredOf(id) ==
    CASE id = 0 -> {"content"} [] id = 1 -> {"target"} [] id = 2 -> {"target", "amount"}

\* a payload holds every required parameter, each valid
ParametersValid(p) ==
    /\ RequiredOf(p.action_id) \subseteq p.fields
    /\ "target" \in RequiredOf(p.action_id) => p.target_address \in AddressShaped
    /\ "content" \in RequiredOf(p.action_id) => p.post_content_cid # ""
    /\ "amount" \in RequiredOf(p.action_id) => p.reward_amount_wei.mantissa > 0

\* C1: every execute-action request that was sent carries every parameter its
\* action requires, each valid: target address-shaped, content non-empty,
\* amount positive.
C1_SentOnlyWithValidParameters ==
    \A i \in DOMAIN execs : execs[i].sent > 0 => ParametersValid(execs[i].payload)

\* C2: an execute of Reward (id 2) whose target is missing or not
\* address-shaped has failed with the invalid-target error and has sent no
\* request, whatever content and amount hold.
C2_RewardWithoutTargetSendsNothing ==
    \A i \in DOMAIN execs :
        (execs[i].action_id = 2 /\ execs[i].target \notin AddressShaped)
            => /\ execs[i].pc = "Failed"
               /\ execs[i].result = "Invalid target"
               /\ execs[i].sent = 0

C2_Witness ==
    \E i \in DOMAIN execs :
        /\ execs[i].action_id = 2 /\ execs[i].target \notin AddressShaped
        /\ execs[i].pc = "Failed"
        /\ logs # <<>> /\ logs[1].name = "Execute" /\ logs[1].status = "failed"

InFlight(p) ==
    {i \in DOMAIN execs : execs[i].pc = "Submitted" /\ execs[i].up_address = p}

\* C3: for each profile at most one execute-action request is sent and not
\* yet settled.
C3_OneExecuteInFlightPerProfile ==
    \A p \in Profiles : Cardinality(InFlight(p)) <= 1

\* a request is in flight while the Execute Action button is rendered for a
\* recommendation and a further call is within the bound
C3_Witness ==
    /\ Connected /\ HasActionDetails /\ provider
    /\ Calls < MaxCalls
    /\ Cardinality(InFlight(address)) = 1

\* the runs of a history h that reach one of the states fin in this step
Finishing(h, hNext, fin) ==
    {i \in DOMAIN hNext : hNext[i].pc \in fin /\ (i \in DOMAIN h => h[i].pc \notin fin)}

\* the terminal entries of this name that this step added to the log
NewTerminal(l, from, name) ==
    {k \in DOMAIN l : l[k].id >= from /\ l[k].name = name /\ l[k].status \in TerminalStatus}

\* C4: a step adds as many terminal (success or failed) Execute entries as
\* execute runs finish in it, and as many terminal Recommend entries as
\* recommend calls finish in it, and a finished run never finishes again: each
\* started attempt gets exactly one terminal entry.
C4_OneTerminalEntryPerAttempt ==
    [][ /\ Cardinality(NewTerminal(logs', nextId, "Execute"))
            = Cardinality(Finishing(execs, execs', Settled))
        /\ Cardinality(NewTerminal(logs', nextId, "Recommend"))
            = Cardinality(Finishing(recoms, recoms', Finished))
        /\ \A i \in DOMAIN execs : execs[i].pc \in Settled => execs'[i].pc = execs[i].pc
        /\ \A i \in DOMAIN recoms : recoms[i].pc \in Finished => recoms'[i].pc = recoms[i].pc
      ]_vars

\* an execute that failed validation, and a recommend and an execute that
\* finished after their request, each with its entry still in the log
C4_Witness ==
    /\ \E i \in DOMAIN execs : execs[i].pc = "Failed" /\ execs[i].sent = 0
    /\ \E i \in DOMAIN execs : execs[i].pc \in Settled /\ execs[i].sent = 1
    /\ \E i \in DOMAIN recoms : recoms[i].pc = "Done"
    /\ Cardinality({k \in DOMAIN logs : logs[k].name = "Execute"
                                         /\ logs[k].status \in TerminalStatus}) = 2

\* C5: an execute is recorded as success only when the result of the execution
\* says the transaction was included and succeeded.
C5_SuccessOnlyWhenConfirmed ==
    \A i \in DOMAIN execs : execs[i].pc = "Confirmed" => execs[i].result = "Confirmed"

\* requests posted to the execute endpoint so far
ExecuteRequests ==
    {<<"execs", i>> : i \in {j \in DOMAIN execs : execs[j].url = ExecuteUrl /\ execs[j].sent > 0}}
    \cup {<<"recoms", i>> : i \in {j \in DOMAIN recoms : recoms[j].url = ExecuteUrl}}

\* C6: a step of getRecom (the call, its refusal, or the arrival of its answer
\* or failure) posts nothing to the execute endpoint and leaves the execute
\* runs, the exec flag, the pending refreshes and the action parameters alone.
C6_RecommendSubmitsNothing ==
    [][ (recoms' # recoms \/ (error' = RefusedMessage /\ error # RefusedMessage))
            => /\ ExecuteRequests' = ExecuteRequests
               /\ UNCHANGED <<execs, timers, target, content, amount>>
               /\ loading'.exec = loading.exec
      ]_vars

\* a recommend call was answered while an execute request was in flight
C6_Witness ==
    /\ \E i \in DOMAIN recoms : recoms[i].pc = "Done"
    /\ \E i \in DOMAIN recoms : recoms[i].pc = "Pending"
    /\ \E i \in DOMAIN execs : execs[i].pc = "Submitted"

\* C7: an execute that failed because its request was rejected has made
\* exactly 3 submission attempts.
C7_RejectedMeansThreeAttempts ==
    \A i \in DOMAIN execs :
        (execs[i].pc = "Failed" /\ execs[i].result = "rejected") => execs[i].sent = 3

\* C8: a run starts as Submitted with one request sent, or as Failed with
\* none; a Submitted run becomes Confirmed or Failed without a further
\* request; a Confirmed or Failed run never changes and sends nothing more.
C8_NoSubmissionAfterSettled ==
    [][ /\ DOMAIN execs \subseteq DOMAIN execs'
        /\ \A i \in DOMAIN execs' :
              IF i \notin DOMAIN execs
              THEN \/ execs'[i].pc = "Submitted" /\ execs'[i].sent = 1
                   \/ execs'[i].pc = "Failed" /\ execs'[i].sent = 0
              ELSE IF execs[i].pc = "Submitted"
              THEN /\ execs'[i].pc \in {"Submitted", "Confirmed", "Failed"}
                   /\ execs'[i].sent = execs[i].sent
              ELSE execs'[i] = execs[i]
      ]_vars

\* a run answered with a reverted execution, recorded as Confirmed with its one
\* request, and a later fetchMetrics call (the delayed refresh or a click)
C8_Witness ==
    /\ \E i \in DOMAIN execs :
          execs[i].pc = "Confirmed" /\ execs[i].result = "ExecutionReverted"
          /\ execs[i].sent = 1
    /\ Len(fetches) >= 2

\* C9: the metrics a recommend request carries come from a read started within
\* the same call, after the reads that existed when the call began.
C9_ObservationReadInTheCall ==
    \A i \in DOMAIN recoms : recoms[i].read > recoms[i].readsBefore

\* C10: the log never holds more than the cap; a call of addLog puts the new
\* entry first, keeps the earlier entries in their order behind it, and when
\* the log was full drops exactly the last (oldest) one.
C10_LogBoundedOldestDropped ==
    /\ [](Len(logs) <= LogCap)
    /\ [][ nextId' = nextId + 1
            => /\ Len(logs') = Min(Len(logs) + 1, LogCap)
               /\ logs'[1].id = nextId
               /\ \A k \in 2..Len(logs') : logs'[k] = logs[k - 1]
               /\ Len(logs) = LogCap
                    => \A k \in DOMAIN logs' : logs'[k].id # logs[LogCap].id
         ]_vars

\* a full log that has dropped entries: its oldest entry is not the first made
C10_Witness ==
    /\ Len(logs) = LogCap
    /\ nextId > LogCap
    /\ logs[LogCap].id = nextId - LogCap
    /\ logs[1].id = nextId - 1

(***************************************************************************)
(* The log under addLog and the reset of line 90 together: SpecLog with    *)
(* the account going away.                                                 *)
(***************************************************************************)
NextLogClear == NextLog \/ Disconnect

SpecLogClear == InitLog /\ [][NextLogClear]_vars

\* the entries of l that were created before the step (ids below n)
CreatedBefore(e) == e.id < nextId

EarlierEntries(l) == SelectSeq(l, CreatedBefore)

LogIds(l) == {l[k].id : k \in DOMAIN l}

\* the entries created earlier that the log still holds are the newest of
\* them, in their order and with the fields they were created with
EntriesUntouched ==
    LET kept == EarlierEntries(logs')
    IN  Len(kept) <= Len(logs) /\ kept = SubSeq(logs, 1, Len(kept))

\* the entry at position j leaves the log in this step
Leaves(j) == logs[j].id \notin LogIds(logs')

\* the only entry leaving is the oldest one of a full log
DroppedAtCap(j) == j = Len(logs) /\ Len(logs) = LogCap /\ Len(logs') = LogCap

\* the reset of line 90: the address goes from a profile to none
ClearedOnDisconnect == address # NoAddr /\ address' = NoAddr /\ logs' = <<>>

NextSwitch ==
    \/ \E a \in Profiles : Connect(a)
    \/ Disconnect
    \/ Refresh
    \/ \E a \in Profiles : TimerFire(a)
    \/ \E i \in DOMAIN fetches : \E s \in MetricSamples : FetchResolve(i, s)
    \/ \E i \in DOMAIN fetches : FetchReject(i)
    \/ GetRecomRefused
    \/ getRecom
    \/ \E i \in DOMAIN recoms : \E data \in ActionResponses : GetRecomResolve(i, data)
    \/ \E i \in DOMAIN recoms : GetRecomReject(i)
    \/ execAction
    \/ \E i \in DOMAIN execs : \E res \in ExecResponses : ExecResolve(i, res)
    \/ \E i \in DOMAIN execs : ExecReject(i)
    \/ \E v \in TargetInputs : SetTarget(v)
    \/ \E v \in ContentInputs : SetContent(v)
    \/ \E v \in AmountInputs : SetAmount(v)

SpecSwitch == Init /\ [][NextSwitch]_vars

\* the reads of profile p in the history, by outcome
ReadsOf(p, outcome) ==
    {i \in DOMAIN fetches : fetches[i].address = p /\ fetches[i].pc = outcome}

\* a recommend-action request goes out in this step
RecommendSent == Len(recoms') > Len(recoms)

\* C12: when the metrics read of the connected profile has failed and no
\* read of that profile has succeeded, no recommend-action request is sent
\* for it (the recommendation fails, nothing stands in for the observation)
C12_FailedReadFailsRecommendation ==
    [][RecommendSent
       => ~(ReadsOf(address, "Failed") # {} /\ ReadsOf(address, "Done") = {})]_vars

(***************************************************************************)
(* configureKeyManager.js (src/scripts/deploy.js, lines 51-159): the       *)
(* script that grants the agent its permissions on the profile. One run    *)
(* is the environment check at load, the call of up.owner(), the building  *)
(* of the batch and the setDataBatch transaction.                          *)
(***************************************************************************)
\* runs of the script explored, one after the other, on the same environment
MaxRuns == 2

\* process.env: every variable unset ("") or set
Envs ==
    [TESTNET_RPC_URL : {"", "https://rpc"}, DEPLOYER_PRIVATE_KEY : {"", "0xkey"},
     TARGET_UP_ADDRESS : {"", "0xUP"}, AGENT_EOA_ADDRESS : {""} \cup Agents,
     THANK_YOU_TOKEN_ADDRESS : {"", "0xTYT"}, BADGE_NFT_ADDRESS : {"", "0xBDG"}]

LSP7Transfer == "transfer(address,address,uint256,bool,bytes)"
LSP8Transfer == "transfer(address,address,bytes32,bool,bytes)"

\* ethers.id(text): keccak256 of the text, here as its 32 bytes
ethersId(text) ==
    CASE text = LSP7Transfer ->
         <<"76", "0d", "9b", "ba", "a1", "7a", "45", "e8", "14", "49", "9a", "74", "53", "de", "f8", "97",
           "6d", "e5", "9a", "ee", "b2", "93", "76", "9d", "d1", "13", "4a", "4e", "c4", "8c", "e9", "88">>
      [] text = LSP8Transfer ->
         <<"51", "1b", "69", "52", "bd", "3f", "12", "27", "58", "e2", "9e", "8e", "3a", "ed", "5f", "5e",
           "7f", "06", "f2", "72", "da", "da", "ba", "29", "93", "d7", "b9", "fa", "53", "11", "5b", "d2">>

\* slice(0, n) of the string "0x" + hex digits: the first (n - 2) / 2 bytes
hexSlice0(bytes, n) == SubSeq(bytes, 1, Min(Len(bytes), (n - 2) \div 2))

\* decode(['bytes4'], data)[0]: the first four bytes of the data
decodeBytes4(data) == SubSeq(data, 1, 4)

\* lines 92-95
tokenTransferSelector == decodeBytes4(hexSlice0(ethersId(LSP7Transfer), 10))

\* variant: the selector of the token's transfer, copied to the badge
nftTransferSelectorCopied == decodeBytes4(hexSlice0(ethersId(LSP7Transfer), 10))

\* lines 102-105
nftTransferSelector == decodeBytes4(hexSlice0(ethersId(LSP8Transfer), 10))

\* the LSP6 permission bits ERC725.encodePermissions knows, of which the
\* script uses two
PermissionBit(name) ==
    CASE name = "CALL" -> 2048 [] name = "SETDATA" -> 262144

RECURSIVE SumBits(_)
SumBits(names) ==
    IF names = {} THEN 0
    ELSE LET n == CHOOSE x \in names : TRUE
         IN  PermissionBit(n) + SumBits(names \ {n})

\* ERC725.encodePermissions({name: true, ...}): the bits of the names, or-ed
encodePermissions(names) == SumBits(names)

\* lines 86-89
upPermissions == encodePermissions({"SETDATA", "CALL"})

CallType == "0x0000000000000000000000000000000000000000000000000000000000000001"

\* one element of the AllowedCalls value (lines 127-132, 134-139)
AllowedCall(addr, selector) ==
    [address |-> addr, interfaceId |-> "0x00000000", permissionType |-> CallType,
     allowedFunctions |-> <<selector>>]

\* erc725.encodeData(items): the keys, with the dynamic part filled in, and
\* the values, in the order of the items
encodeData(items) ==
    [keys |-> [i \in DOMAIN items |-> <<items[i].keyName, items[i].dynamicKeyParts>>],
     values |-> [i \in DOMAIN items |-> items[i].value]]

NoBatch == [keys |-> <<>>, values |-> <<>>]

\* lines 115-142
permissionData(e) ==
    encodeData(
      <<[keyName |-> "AddressPermissions:Permissions",
         dynamicKeyParts |-> e.AGENT_EOA_ADDRESS,
         value |-> <<upPermissions>>],
        [keyName |-> "AddressPermissions:AllowedCalls",
         dynamicKeyParts |-> e.AGENT_EOA_ADDRESS,
         value |-> <<AllowedCall(e.THANK_YOU_TOKEN_ADDRESS, tokenTransferSelector)>>
                   \o (IF e.BADGE_NFT_ADDRESS # ""
                       THEN <<AllowedCall(e.BADGE_NFT_ADDRESS, nftTransferSelector)>>
                       ELSE <<>>)]>>)

\* variant: the token address is not among the required variables
MissingEnvTokenOptional(e) ==
    \/ e.DEPLOYER_PRIVATE_KEY = ""
    \/ e.TARGET_UP_ADDRESS = ""
    \/ e.AGENT_EOA_ADDRESS = ""
    \/ e.TESTNET_RPC_URL = ""

\* line 67
MissingEnv(e) ==
    \/ e.DEPLOYER_PRIVATE_KEY = ""
    \/ e.TARGET_UP_ADDRESS = ""
    \/ e.AGENT_EOA_ADDRESS = ""
    \/ e.TESTNET_RPC_URL = ""
    \/ e.THANK_YOU_TOKEN_ADDRESS = ""

\* variant: a written value is appended to the value the key holds
setDataAppend(data, key, value) == [data EXCEPT ![key] = @ \o value]

\* the profile stores the value under the key, in place of the one it held
setData(data, key, value) == [data EXCEPT ![key] = value]

\* setDataBatch(keys, values) of line 146: one transaction that stores
\* every pair, in order
RECURSIVE setDataBatch(_, _, _)
setDataBatch(data, keys, values) ==
    IF keys = <<>> THEN data
    ELSE setDataBatch(setData(data, Head(keys), Head(values)), Tail(keys), Tail(values))

\* what the profile may hold before the script runs: nothing, or an earlier
\* grant of the agent
EarlierGrant ==
    [k \in PermissionKeys |->
       IF k[1] = "AddressPermissions:Permissions"
       THEN <<encodePermissions({"CALL"})>>
       ELSE <<AllowedCall("0xOld", tokenTransferSelector)>>]

PriorData == {NoData, EarlierGrant}

\* the component is not part of the script's run
AppUnmounted ==
    /\ address = NoAddr
    /\ provider = FALSE
    /\ metrics = Null
    /\ recommendation = Null
    /\ logs = <<>>
    /\ loading = [metrics |-> FALSE, recommend |-> FALSE, exec |-> FALSE]
    /\ error = NoError
    /\ target = ""
    /\ content = ""
    /\ amount = "1"
    /\ fetches = <<>>
    /\ recoms = <<>>
    /\ execs = <<>>
    /\ timers = [a \in Profiles |-> 0]
    /\ nextId = 0

InitScript ==
    /\ AppUnmounted
    /\ AgentIdle
    /\ env \in Envs
    /\ upData \in PriorData
    /\ runs = <<>>

\* the script can be started: it has not run, or its last run has ended
CanRun ==
    /\ Len(runs) < MaxRuns
    /\ runs # <<>> => runs[Len(runs)].pc \in {"exited", "thrown", "set", "error"}

Run(pc, batch, sent) == [pc |-> pc, permissionData |-> batch, sent |-> sent, after |-> upData]

\* lines 67-70: a required variable is missing, the process exits
RunExits ==
    /\ CanRun
    /\ MissingEnv(env)
    /\ runs' = Append(runs, Run("exited", NoBatch, 0))
    /\ UNCHANGED <<appVars, agentVars, env, upData>>

\* lines 73-80 and 159: configureKeyManager runs up to the await of up.owner()
RunStarts ==
    /\ CanRun
    /\ ~MissingEnv(env)
    /\ runs' = Append(runs, Run("owner", NoBatch, 0))
    /\ UNCHANGED <<appVars, agentVars, env, upData>>

\* up.owner() rejected, or a call of lines 81-113 threw: line 159 logs it
RunThrows ==
    /\ runs # <<>>
    /\ runs[Len(runs)].pc = "owner"
    /\ runs' = [runs EXCEPT ![Len(runs)].pc = "thrown"]
    /\ UNCHANGED <<appVars, agentVars, env, upData>>

\* lines 81-146: the batch is built and sent in one setDataBatch transaction
Proposes ==
    /\ runs # <<>>
    /\ runs[Len(runs)].pc = "owner"
    /\ runs' = [runs EXCEPT ![Len(runs)] = Run("proposing", permissionData(env), 1)]
    /\ UNCHANGED <<appVars, agentVars, env, upData>>

\* lines 146-153: the transaction is mined
BatchSet ==
    /\ runs # <<>>
    /\ runs[Len(runs)].pc = "proposing"
    /\ LET batch == runs[Len(runs)].permissionData
           data == setDataBatch(upData, batch.keys, batch.values)
       IN  /\ upData' = data
           /\ runs' = [runs EXCEPT ![Len(runs)].pc = "set", ![Len(runs)].after = data]
    /\ UNCHANGED <<appVars, agentVars, env>>

\* lines 154-156: sending or mining failed, nothing is stored
BatchFails ==
    /\ runs # <<>>
    /\ runs[Len(runs)].pc = "proposing"
    /\ runs' = [runs EXCEPT ![Len(runs)].pc = "error"]
    /\ UNCHANGED <<appVars, agentVars, env, upData>>

NextScript == RunExits \/ RunStarts \/ RunThrows \/ Proposes \/ BatchSet \/ BatchFails

SpecScript == InitScript /\ [][NextScript]_vars

(***************************************************************************)
(* Properties of the configuration script.                                 *)
(***************************************************************************)
\* the variables a run needs apart from the contracts it may allow
ProfileAndAgentSet ==
    /\ env.DEPLOYER_PRIVATE_KEY # ""
    /\ env.TARGET_UP_ADDRESS # ""
    /\ env.AGENT_EOA_ADDRESS # ""
    /\ env.TESTNET_RPC_URL # ""

\* no contract is configured for the agent to call
NoAllowedContracts == env.THANK_YOU_TOKEN_ADDRESS = "" /\ env.BADGE_NFT_ADDRESS = ""

Built(r) == r.pc \in {"proposing", "set", "error"}

PermissionsKey == <<"AddressPermissions:Permissions", env.AGENT_EOA_ADDRESS>>
AllowedCallsKey == <<"AddressPermissions:AllowedCalls", env.AGENT_EOA_ADDRESS>>

\* C13 as stated: with no allowed contract the run does not abort, and the
\* batch it builds holds the agent's permissions entry and nothing else
C13_EmptyGrantSucceeds ==
    \A i \in DOMAIN runs :
       ProfileAndAgentSet /\ NoAllowedContracts
       => /\ runs[i].pc # "exited"
          /\ Built(runs[i]) => runs[i].permissionData.keys = <<PermissionsKey>>

\* C13, amended: without the token address the run aborts at the
\* environment check, builds no batch, sends no transaction and leaves the
\* stored permissions as they were; every batch a run builds holds an
\* allowed-calls entry whose first element is the token's
C13_NoTokenNoGrant ==
    /\ env.THANK_YOU_TOKEN_ADDRESS = ""
       => /\ upData \in PriorData
          /\ \A i \in DOMAIN runs :
                /\ runs[i].pc = "exited"
                /\ runs[i].permissionData = NoBatch
                /\ runs[i].sent = 0
    /\ \A i \in DOMAIN runs :
          Built(runs[i])
          => /\ AllowedCallsKey \in {runs[i].permissionData.keys[k] :
                                       k \in DOMAIN runs[i].permissionData.keys}
             /\ runs[i].permissionData.values[2][1].address = env.THANK_YOU_TOKEN_ADDRESS
             /\ env.THANK_YOU_TOKEN_ADDRESS # ""

\* a run with profile and agent configured and no allowed contract has
\* ended at the environment check
C13_Witness ==
    /\ ProfileAndAgentSet
    /\ NoAllowedContracts
    /\ runs # <<>>
    /\ runs[1].pc = "exited"

\* the (contract, selector) pairs the environment names: the token with the
\* selector of the LSP7 transfer, and the badge, when configured, with the
\* selector of the LSP8 transfer
AllowedPairs ==
    {<<env.THANK_YOU_TOKEN_ADDRESS, <<"76", "0d", "9b", "ba">>>>}
    \cup (IF env.BADGE_NFT_ADDRESS # ""
          THEN {<<env.BADGE_NFT_ADDRESS, <<"51", "1b", "69", "52">>>>}
          ELSE {})

ElementsFor(calls, pair) ==
    {k \in DOMAIN calls :
        calls[k].address = pair[1] /\ calls[k].allowedFunctions = <<pair[2]>>}

\* the batch holds the agent's permissions entry once, and allowed-calls
\* elements for exactly the named pairs, one each
ExactBatch(b) ==
    /\ b.keys = <<PermissionsKey, AllowedCallsKey>>
    /\ Len(b.values) = 2
    /\ \A pair \in AllowedPairs : Cardinality(ElementsFor(b.values[2], pair)) = 1
    /\ \A k \in DOMAIN b.values[2] :
          /\ Len(b.values[2][k].allowedFunctions) = 1
          /\ <<b.values[2][k].address, b.values[2][k].allowedFunctions[1]>> \in AllowedPairs

\* the stored data changes only by a run's whole batch, in one step
WrittenWhole ==
    upData' # upData
    => LET r == runs'[Len(runs')]
       IN  /\ r.pc = "set"
           /\ \A k \in DOMAIN r.permissionData.keys :
                 upData'[r.permissionData.keys[k]] = r.permissionData.values[k]

\* C14: every batch a run builds holds one allowed-calls element for each
\* named (contract, selector) pair with exactly that selector, none for any
\* other address or selector (the badge iff it is configured) and one
\* permissions entry for the agent; the run sends it in one transaction and
\* the stored data changes only by the whole batch at once
C14_ExactGrantOneWrite ==
    /\ [](\A i \in DOMAIN runs :
             Built(runs[i]) => ExactBatch(runs[i].permissionData) /\ runs[i].sent = 1)
    /\ [][WrittenWhole]_vars

\* a run with the badge configured has stored its batch: two elements
C14_Witness ==
    /\ env.BADGE_NFT_ADDRESS # ""
    /\ runs # <<>>
    /\ runs[1].pc = "set"
    /\ Len(upData[AllowedCallsKey]) = 2

ObsSteps == 2

\* steps of a training run explored
MaxSteps == 8

ActionIds == DOMAIN AVAILABLE_ACTIONS

Observations == (0..ObsSteps) \X (0..ObsSteps) \X (0..ObsSteps)

\* a policy artifact estimates the value of an action as a weighted sum of
\* the observation
WeightVectors == {<<0, 0, 0>>, <<1, 0, 0>>, <<0, 1, -1>>, <<1, 1, 1>>}

Policies == [ActionIds -> WeightVectors]

\* probabilities, in thousandths
Epsilons == {0, 500, 1000}
\* samples of the uniform draw on [0,1), in thousandths
Draws == {0, 499, 999}

\* estimated value of action a for the observation
Q(p, a, obs) == p[a][1] * obs[1] + p[a][2] * obs[2] + p[a][3] * obs[3]

\* variant: a later action of equal value replaces the best so far
RECURSIVE greedyFromLast(_, _, _, _)
greedyFromLast(p, obs, a, best) ==
    IF a \notin ActionIds THEN best
    ELSE greedyFromLast(p, obs, a + 1,
                        IF Q(p, a, obs) >= Q(p, best, obs) THEN a ELSE best)

\* the scan for the highest value over the ids in ascending order: a later
\* action replaces the best so far only when its value is strictly higher
RECURSIVE greedyFrom(_, _, _, _)
greedyFrom(p, obs, a, best) ==
    IF a \notin ActionIds THEN best
    ELSE greedyFrom(p, obs, a + 1,
                    IF Q(p, a, obs) > Q(p, best, obs) THEN a ELSE best)

greedy(p, obs) == greedyFrom(p, obs, 1, 0)

\* selectAction(observation, explore): greedy when serving; when training,
\* with probability epsilon (the draw u falls below it) the action r drawn
\* uniformly, otherwise greedy
selectAction(p, obs, explore, epsilon, u, r) ==
    IF explore /\ u < epsilon THEN r ELSE greedy(p, obs)

InitPolicy ==
    /\ AppUnmounted
    /\ ScriptIdle
    /\ policy \in Policies
    /\ call = NoCall
    /\ trainer = NoTrainer

\* one call of selectAction on the loaded policy; a call leaves the session
\* as it was, so one call per run shows every call
Select(obs, explore, epsilon, u, r) ==
    /\ ~call.made
    /\ call' = [made |-> TRUE, obs |-> obs, explore |-> explore, epsilon |-> epsilon,
                action |-> selectAction(policy, obs, explore, epsilon, u, r)]
    /\ UNCHANGED <<appVars, scriptVars, policy, trainer>>

NextPolicy ==
    \E obs \in Observations : \E explore \in BOOLEAN : \E epsilon \in Epsilons :
       \E u \in Draws : \E r \in ActionIds : Select(obs, explore, epsilon, u, r)

SpecPolicy == InitPolicy /\ [][NextPolicy]_vars

(***************************************************************************)
(* The exploration schedule of a training run.                             *)
(***************************************************************************)
\* configurations: start, floor and decay rate in thousandths, floor <= start
Schedules ==
    {sc \in [start : {1000, 500}, floor : {0, 50, 500}, rate : {500, 900, 1000}] :
        sc.floor <= sc.start}

Max(a, b) == IF a > b THEN a ELSE b

\* variant: the decayed value is not held at the floor
decayUnbounded(epsilon, sc) == (epsilon * sc.rate) \div 1000

\* epsilon after one update: multiplied by the rate, held at the floor
decay(epsilon, sc) == Max(sc.floor, (epsilon * sc.rate) \div 1000)

InitTrain ==
    /\ AppUnmounted
    /\ ScriptIdle
    /\ policy = NoPolicy
    /\ call = NoCall
    /\ \E sc \in Schedules :
          trainer = [running |-> TRUE, schedule |-> sc, epsilon |-> sc.start, step |-> 0]

\* one training step: epsilon is updated after the step
TrainStep ==
    /\ trainer.running
    /\ trainer.step < MaxSteps
    /\ trainer' = [trainer EXCEPT !.epsilon = decay(@, trainer.schedule),
                                  !.step = @ + 1]
    /\ UNCHANGED <<appVars, scriptVars, policy, call>>

NextTrain == TrainStep

SpecTrain == InitTrain /\ [][NextTrain]_vars

(***************************************************************************)
(* Properties of the agent service.                                        *)
(***************************************************************************)
\* a is an action of highest estimated value, and the lowest id among those
HighestLowestId(a, p, obs) ==
    /\ a \in ActionIds
    /\ \A b \in ActionIds :
          /\ Q(p, a, obs) >= Q(p, b, obs)
          /\ Q(p, b, obs) = Q(p, a, obs) => a <= b

\* C16: a call with explore = false returns, for every policy and every
\* observation, an id in {0,1,2} that has the highest estimated value and
\* is the lowest id among the tied actions; a call with explore = true and
\* epsilon = 0 returns that same action
C16_GreedyHighestLowestId ==
    call.made
    => /\ call.action \in {0, 1, 2}
       /\ ~call.explore \/ call.epsilon = 0
          => HighestLowestId(call.action, policy, call.obs)

\* a serving call returned action 1 where actions 1 and 2 tie for the
\* highest value
C16_Witness ==
    /\ call.made
    /\ ~call.explore
    /\ call.action = 1
    /\ Q(policy, 1, call.obs) = Q(policy, 2, call.obs)
    /\ Q(policy, 1, call.obs) > Q(policy, 0, call.obs)

\* C17: in every state of a training run floor <= epsilon <= start, and an
\* update never raises epsilon
C17_EpsilonDecaysToFloor ==
    /\ [](trainer.running
          => /\ trainer.schedule.floor <= trainer.epsilon
             /\ trainer.epsilon <= trainer.schedule.start)
    /\ [][trainer.running => trainer'.epsilon <= trainer.epsilon]_vars

\* a run that started above its floor has decayed to the floor
C17_Witness ==
    /\ trainer.running
    /\ trainer.step > 1
    /\ trainer.schedule.floor > 0
    /\ trainer.schedule.floor < trainer.schedule.start
    /\ trainer.epsilon = trainer.schedule.floor

(***************************************************************************)
(* Properties of the component when the account changes or goes away.      *)
(***************************************************************************)
\* C18: every execute-action request carries the profile address the
\* recommendation it executes was requested for
C18_ExecuteForRecommendedProfile ==
    \A i \in DOMAIN execs :
       execs[i].sent > 0
       => recoms[execs[i].recommended].up_address = execs[i].payload.up_address

\* C19: while no profile is connected, metrics and recommendation are null
\* and the log is empty
C19_NothingHeldWhenDisconnected ==
    address = NoAddr => metrics = Null /\ recommendation = Null /\ logs = <<>>

\* the operations of each kind that have started and not finished
FetchesInFlight == {i \in DOMAIN fetches : fetches[i].pc = "Pending"}
RecomsInFlight == {i \in DOMAIN recoms : recoms[i].pc = "Pending"}
ExecsInFlight == {i \in DOMAIN execs : execs[i].pc = "Submitted"}

\* C20: each loading flag is true while an operation of its kind is in
\* flight, also when two metrics fetches overlap, and is false again once
\* every operation of its kind has finished, however it finished
C20_FlagTrueExactlyWhileInFlight ==
    /\ loading.metrics <=> FetchesInFlight # {}
    /\ loading.recommend <=> RecomsInFlight # {}
    /\ loading.exec <=> ExecsInFlight # {}

\* the run i of execAction ends as failed in this step: its validation
\* threw in the step that started it, or its request was rejected
ExecFails(i) ==
    /\ execs'[i].pc = "Failed"
    /\ i \in DOMAIN execs => execs[i].pc # "Failed"

\* the request of run i is answered in this step
ExecSucceeds(i) ==
    /\ i \in DOMAIN execs
    /\ execs[i].pc # "Confirmed"
    /\ execs'[i].pc = "Confirmed"

\* C21: the step in which an execAction run fails leaves recommendation,
\* target, content and amount as they were and schedules and starts no
\* metrics refresh; the step in which a run succeeds sets recommendation
\* to null, target and content to empty and amount to '1'; an execute
\* starts only on a recommendation held, and never on the recommendation
\* an earlier successful run executed
C21_FailureKeepsSuccessResets ==
    /\ [][\A i \in DOMAIN execs' :
             /\ ExecFails(i)
                => /\ UNCHANGED <<recommendation, target, content, amount, timers>>
                   /\ fetches' = fetches
             /\ ExecSucceeds(i)
                => /\ recommendation' = Null
                   /\ target' = ""
                   /\ content' = ""
                   /\ amount' = "1"
             /\ i \notin DOMAIN execs => recommendation # Null]_vars
    /\ [](\A i, j \in DOMAIN execs :
             i < j /\ execs[i].pc = "Confirmed"
             => execs[j].recommended # execs[i].recommended)

\* a run was rejected, a later run on the same recommendation succeeded
\* with a content typed in, and the form is back to its defaults
C21_Witness ==
    /\ recommendation = Null
    /\ content = ""
    /\ amount = "1"
    /\ \E i, j \in DOMAIN execs :
          /\ i < j
          /\ execs[i].pc = "Failed"
          /\ execs[i].result = "rejected"
          /\ execs[j].pc = "Confirmed"
          /\ execs[j].content # ""
          /\ execs[j].recommended = execs[i].recommended

====
